---- MODULE Spec2Model ----
(***************************************************************************)
(* Model of networkx/generators/trees.py: prefix_tree (the trie builder)   *)
(* and random_tree (a random Pruefer sequence handed to the decoder).      *)
(***************************************************************************)
EXTENDS Integers, Sequences, FiniteSets, TLC

\* ------------------------------------------------------------------ bounds
\* Longest list of paths handed to prefix_tree.
MaxPaths == 3
\* Longest path in such a list.
MaxLen == 2
\* Longest Pruefer sequence handed to the decoder on its own.
MaxL == 3
\* Largest n handed to random_tree.
MaxNodes == 4
\* The seed whose stream is followed.  Any other seed starts a stream that
\* is unrelated to this one, as seeding with None does.
Seeds == {"s1"}
\* Path elements.  One of them is equal to the NIL marker, so that a node
\* whose 'source' is "NIL" and the nil node itself can be told apart.
Elems == {"a", "NIL"}

\* ------------------------------------------------------- program constants
\* trees.py:22  NIL = "NIL"
NIL == "NIL"
\* Python's None (the 'source' of the root).  No path element is equal to it.
None == "None"

VARIABLES
    pc,     \* "start" before the call under study, "done" after it
    paths,  \* prefix_tree's argument
    T,      \* the DiGraph prefix_tree returns
    root,   \* the root prefix_tree returns
    uid,    \* state of the unique node generator
    sequence,   \* the sequence handed to from_prufer_sequence
    tree,       \* the graph from_prufer_sequence returns
    rng,        \* the shared random source: the seed of its stream and the
                \* number of values drawn from the stream so far
    mt,         \* the values of each seed's stream that are known so far
    call,       \* the arguments of the last call of random_tree
    result,     \* what that call raised and what it returned
    returned    \* what the calls with a followed seed have returned

vars == <<pc, paths, T, root, uid, sequence, tree,
          rng, mt, call, result, returned>>

randomVars == <<rng, mt, call, result, returned>>

trieVars == <<paths, T, root, uid>>

pruferVars == <<sequence, tree>>

\* ------------------------------------------------------------- graph ADT
\* nx.DiGraph(): nodes, directed edges, and the 'source' attribute of the
\* nodes that have one.
DiGraph == [node |-> {}, edge |-> {}, source |-> <<>>]

add_node(G, n, src) ==
    [G EXCEPT !.node = @ \cup {n}, !.source = (n :> src) @@ @]

\* Adding an edge that is already there changes nothing.
add_edge(G, u, v) ==
    [G EXCEPT !.node = @ \cup {u, v}, !.edge = @ \cup {<<u, v>>}]

predecessors(G, v) == {u \in G.node : <<u, v>> \in G.edge}

successors(G, u) == {v \in G.node : <<u, v>> \in G.edge}

in_degree(G, v) == Cardinality(predecessors(G, v))

out_degree(G, u) == Cardinality(successors(G, u))

\* generate_unique_node(): a string never returned before; u counts the
\* identifiers issued so far.
generate_unique_node(u) == [id |-> "u" \o ToString(u + 1), uid |-> u + 1]

\* ------------------------------------------------------------ prefix_tree
\* children[child].append(rest) on a defaultdict(list); the dictionary is a
\* sequence of (head, tails) items in order of first insertion.
\* (Variant: every path opens an item of its own.)
AppendNoMerge(children, child, rest) ==
    Append(children, [head |-> child, tails |-> <<rest>>])

AppendChild(children, child, rest) ==
    IF \E i \in DOMAIN children : children[i].head = child
    THEN [i \in DOMAIN children |->
            IF children[i].head = child
            THEN [children[i] EXCEPT !.tails = Append(@, rest)]
            ELSE children[i]]
    ELSE Append(children, [head |-> child, tails |-> <<rest>>])

\* rest = path[1:]   (Variant: path[2:].)
RestSkipsTwo(path) == SubSeq(path, 3, Len(path))

Rest(path) == SubSeq(path, 2, Len(path))

\* B.add_edge(root, NIL) for an empty path.
EndPath(B, r) == add_edge(B, r, NIL)

\* The first loop of _helper: for path in paths.
RECURSIVE ForPaths(_, _, _, _)
ForPaths(ps, r, B, children) ==
    IF ps = <<>>
    THEN [B |-> B, children |-> children]
    ELSE LET path == Head(ps)
         IN  IF path = <<>>
             THEN ForPaths(Tail(ps), r, EndPath(B, r), children)
             ELSE ForPaths(Tail(ps), r, B,
                           AppendChild(children, path[1], Rest(path)))

\* new_head = generate_unique_node()   (Variant: the child keeps its name.)
NewHeadIsHead(head, u) == head

NewHead(head, u) == generate_unique_node(u).id

\* _helper(paths, root, B), and its second loop: for head, tails in
\* children.items().  u is the state of the unique node generator; the
\* result is the graph and the generator after the call.
RECURSIVE _helper(_, _, _, _)
RECURSIVE ForChildren(_, _, _, _)
ForChildren(children, r, B, u) ==
    IF children = <<>>
    THEN [B |-> B, uid |-> u]
    ELSE LET head     == children[1].head
             tails    == children[1].tails
             new_head == NewHead(head, u)
             B1       == add_edge(add_node(B, new_head, head), r, new_head)
             sub      == _helper(tails, new_head, B1,
                                 generate_unique_node(u).uid)
         IN  ForChildren(Tail(children), r, sub.B, sub.uid)

_helper(ps, r, B, u) ==
    LET loop == ForPaths(ps, r, B, <<>>)
    IN  ForChildren(loop.children, r, loop.B, u)

prefix_tree(ps, u) ==
    LET g  == generate_unique_node(u)
        T0 == add_node(add_node(DiGraph, g.id, None), NIL, NIL)
        h  == _helper(ps, g.id, T0, g.uid)
    IN  [T |-> h.B, root |-> g.id, uid |-> h.uid]

\* ----------------------------------------------------- undirected graphs
\* nx.empty_graph(n): the nodes 0..n-1 and no edge.  An undirected edge is
\* the set of its two ends.
empty_graph(n) == [node |-> 0..(n - 1), edge |-> {}]

Graph_add_edge(G, u, v) ==
    [G EXCEPT !.node = @ \cup {u, v}, !.edge = @ \cup {{u, v}}]

\* --------------------------------------------------- from_prufer_sequence
\* degree[i] = 1 + the number of occurrences of i in the sequence.
InitialDegree(S) ==
    [i \in 0..(Len(S) + 1) |-> 1 + Cardinality({k \in DOMAIN S : S[k] = i})]

\* The smallest-labelled node of degree 1.   (Variant: of degree <= 1.)
SmallestLeafOrSpent(degree) ==
    CHOOSE v \in DOMAIN degree :
        degree[v] <= 1 /\ \A w \in DOMAIN degree : degree[w] <= 1 => v <= w

SmallestLeaf(degree) ==
    CHOOSE v \in DOMAIN degree :
        degree[v] = 1 /\ \A w \in DOMAIN degree : degree[w] = 1 => v <= w

\* For each u of the sequence, in order: join u to the smallest leaf and
\* decrement both degrees.
RECURSIVE DecodeLoop(_, _, _)
DecodeLoop(S, degree, G) ==
    IF S = <<>>
    THEN [G |-> G, degree |-> degree]
    ELSE LET u == Head(S)
             v == SmallestLeaf(degree)
         IN  DecodeLoop(Tail(S),
                        [[degree EXCEPT ![u] = @ - 1] EXCEPT ![v] = @ - 1],
                        Graph_add_edge(G, u, v))

\* After the loop the two nodes left with degree 1 are joined.
\* (Variant: they are not.)
JoinLastForgotten(G, degree) == G

JoinLast(G, degree) ==
    [G EXCEPT !.edge = @ \cup {{i \in DOMAIN degree : degree[i] = 1}}]

from_prufer_sequence(S) ==
    LET done == DecodeLoop(S, InitialDegree(S), empty_graph(Len(S) + 2))
    IN  JoinLast(done.G, done.degree)

\* ------------------------------------------------------------ random_tree
\* The shared random source (import random).  A seeded stream is a fixed
\* but unknown function of its seed: a value of it is chosen when it is
\* first drawn and is the same ever after.  Seeding with None starts a
\* stream seeded from the system, of which nothing is known.
\* random() takes one of Resolution equally spaced values.
Resolution == MaxNodes

NoCall == [n |-> 0 - 1, seed |-> None]

NoResult == [raised |-> None, returned |-> <<>>]

InitRandomVars ==
    /\ rng = [seed |-> None, pos |-> 0]
    /\ mt = [sd \in Seeds |-> <<>>]
    /\ call = NoCall
    /\ result = NoResult
    /\ returned = {}

\* if n == 0   (Variant: if n < 0.)
PointlessIfNegative(n) == n < 0

Pointless(n) == n = 0

\* random.seed(seed)   (Variant: the source is left as it is.)
ReseedForgotten(r, sd) == r

Reseed(r, sd) == [seed |-> sd, pos |-> 0]

\* for i in range(n - 2)   (Variant: range(n - 1).)
NumberOfDrawsOneMore(n) == IF n - 1 > 0 THEN n - 1 ELSE 0

NumberOfDraws(n) == IF n - 2 > 0 THEN n - 2 ELSE 0

\* random.choice(range(n)), for the value raw / Resolution of random().
choice(raw, n) == (raw * n) \div Resolution

\* The values raw[1..k] can be the next k values of the source r.
CanDraw(r, raw) ==
    \A i \in DOMAIN raw :
        (r.seed # None /\ r.pos + i \in DOMAIN mt[r.seed])
            => raw[i] = mt[r.seed][r.pos + i]

\* The source and what is known of the streams after drawing raw from r.
AfterDraw(r, raw) ==
    [rng |-> [r EXCEPT !.pos = @ + Len(raw)],
     mt  |-> IF r.seed = None
             THEN mt
             ELSE [mt EXCEPT ![r.seed] =
                     [p \in 1..(IF r.pos + Len(raw) > Len(@)
                                THEN r.pos + Len(raw) ELSE Len(@)) |->
                        IF p \in DOMAIN @ THEN @[p] ELSE raw[p - r.pos]]]]

\* The record of what seeded calls have returned, after a call with n and
\* sd has returned the edge set e: `again` tells that this very answer has
\* been given more than once.
Remember(rec, n, sd, e) ==
    IF \E x \in rec : x.n = n /\ x.seed = sd /\ x.edges = e
    THEN {IF x.n = n /\ x.seed = sd /\ x.edges = e
          THEN [x EXCEPT !.again = TRUE]
          ELSE x : x \in rec}
    ELSE rec \cup {[n |-> n, seed |-> sd, edges |-> e, again |-> FALSE]}

\* random_tree(n, seed)
RandomTree(n, sd) ==
    /\ call' = [n |-> n, seed |-> sd]
    /\ IF Pointless(n)
       THEN /\ result' = [raised   |-> "NetworkXPointlessConcept",
                          returned |-> <<>>]
            /\ sequence' = <<>>
            /\ UNCHANGED <<rng, mt, returned>>
       ELSE IF n = 1
       THEN /\ result' = [raised |-> None, returned |-> <<empty_graph(1)>>]
            /\ sequence' = <<>>
            /\ UNCHANGED <<rng, mt, returned>>
       ELSE LET r == Reseed(rng, sd)
            IN  \E raw \in [1..NumberOfDraws(n) -> 0..(Resolution - 1)] :
                  /\ CanDraw(r, raw)
                  /\ rng' = AfterDraw(r, raw).rng
                  /\ mt' = AfterDraw(r, raw).mt
                  /\ sequence' = [i \in DOMAIN raw |-> choice(raw[i], n)]
                  /\ result' = [raised   |-> None,
                                returned |-> <<from_prufer_sequence(sequence')>>]
                  /\ returned' =
                        IF sd = None
                        THEN returned
                        ELSE Remember(returned, n, sd,
                                      result'.returned[1].edge)
    /\ UNCHANGED <<trieVars, tree>>

\* Another user of the shared random source draws a value from it.
OtherDraw ==
    /\ rng.pos < NumberOfDraws(MaxNodes)
    /\ rng' = [rng EXCEPT !.pos = @ + 1]
    /\ UNCHANGED <<pc, trieVars, pruferVars, mt, call, result, returned>>

\* Another user seeds the shared random source, with another seed or with
\* None: as random_tree(n, other) does before it draws.
OtherSeed ==
    /\ rng' = [seed |-> None, pos |-> 0]
    /\ UNCHANGED <<pc, trieVars, pruferVars, mt, call, result, returned>>

\* ----------------------------------------------------------------- inputs
PathSet == UNION {[1..n -> Elems] : n \in 0..MaxLen}

PathLists == UNION {[1..k -> PathSet] : k \in 0..MaxPaths}

\* ------------------------------------------------- specification SpecTrie
InitTrie ==
    /\ pc = "start"
    /\ paths \in PathLists
    /\ T = DiGraph
    /\ root = None
    /\ uid = 0
    /\ sequence = <<>>
    /\ tree = [node |-> {}, edge |-> {}]
    /\ InitRandomVars

PrefixTree ==
    /\ pc = "start"
    /\ LET res == prefix_tree(paths, uid)
       IN  /\ T' = res.T
           /\ root' = res.root
           /\ uid' = res.uid
    /\ pc' = "done"
    /\ UNCHANGED <<paths, pruferVars, randomVars>>

NextTrie == PrefixTree

SpecTrie == InitTrie /\ [][NextTrie]_vars

\* ------------------------------------------------ properties of the trie
\* The set of paths in the list handed to prefix_tree.
PathsOf == {paths[i] : i \in DOMAIN paths}

\* The doctest's walk (trees.py:87-94): from v up to the root, prepending
\* the 'source' of each node met.  A node on the way that has not exactly
\* one predecessor ends the walk with a sequence that is no path.
RECURSIVE Recover(_, _)
Recover(v, fuel) ==
    IF v = root
    THEN <<>>
    ELSE IF fuel = 0 \/ Cardinality(predecessors(T, v)) # 1
         THEN <<None>>
         ELSE LET parent == CHOOSE u \in predecessors(T, v) : TRUE
              IN  Append(Recover(parent, fuel - 1), T.source[v])

Recovered ==
    {Recover(v, Cardinality(T.node)) : v \in predecessors(T, NIL)}

\* C1: after prefix_tree(P), the sequences read from the predecessors of NIL
\* up their unique predecessor chains to the root, in root-to-node order,
\* are exactly the paths of P (the empty path included).
C1_RoundTrip == pc = "done" => Recovered = PathsOf

C1_Witness ==
    /\ pc = "done"
    /\ <<>> \in PathsOf
    /\ \E p \in PathsOf : Len(p) = 2
    /\ Cardinality(PathsOf) = 3
    /\ Recovered = PathsOf

\* C2: the returned graph has exactly one node of in-degree 0 with source
\* None (the root) and exactly one node of out-degree 0 with source NIL (the
\* nil node), and every other node has in-degree exactly 1.
C2_DegreeInvariant ==
    pc = "done" =>
        /\ DOMAIN T.source = T.node
        /\ {n \in T.node : in_degree(T, n) = 0 /\ T.source[n] = None} = {root}
        /\ {n \in T.node : out_degree(T, n) = 0 /\ T.source[n] = NIL} = {NIL}
        /\ \A n \in T.node \ {root, NIL} : in_degree(T, n) = 1

\* The same element at two depths of one branch and in two branches.
C2_Witness ==
    /\ pc = "done"
    /\ \E u, v, w \in T.node \ {root, NIL} :
          /\ u # v /\ v # w /\ u # w
          /\ T.source[u] = T.source[v] /\ T.source[v] = T.source[w]
          /\ <<u, v>> \in T.edge
          /\ <<u, w>> \notin T.edge /\ <<w, u>> \notin T.edge
          /\ <<v, w>> \notin T.edge /\ <<w, v>> \notin T.edge
    /\ \A n \in T.node \ {root, NIL} : in_degree(T, n) = 1

\* The children of u, the nil node aside, whose source is e.
ChildrenWith(u, e) ==
    {v \in successors(T, u) \ {NIL} : T.source[v] = e}

\* The edges of the walk from u that spells p; the walk stops where it has
\* no next node or more than one.
RECURSIVE WalkEdges(_, _)
WalkEdges(u, p) ==
    IF p = <<>> \/ Cardinality(ChildrenWith(u, p[1])) # 1
    THEN <<>>
    ELSE LET v == CHOOSE w \in ChildrenWith(u, p[1]) : TRUE
         IN  <<(<<u, v>>)>> \o WalkEdges(v, Tail(p))

\* Length of the longest common prefix of p and q.
RECURSIVE CommonPrefix(_, _)
CommonPrefix(p, q) ==
    IF p = <<>> \/ q = <<>> \/ p[1] # q[1]
    THEN 0
    ELSE 1 + CommonPrefix(Tail(p), Tail(q))

\* The elements that follow the prefix s in the paths of P.
NextElems(s) ==
    {p[Len(s) + 1] :
        p \in {q \in PathsOf : Len(q) > Len(s) /\ SubSeq(q, 1, Len(s)) = s}}

\* C3: the walks spelling two paths of P share exactly their first k edges,
\* k the length of the paths' longest common prefix, and each node has one
\* child, the nil node aside, per distinct next element of the paths
\* through it.
C3_PrefixSharing ==
    pc = "done" =>
        /\ \A i, j \in DOMAIN paths :
              LET p  == paths[i]
                  q  == paths[j]
                  k  == CommonPrefix(p, q)
                  ep == WalkEdges(root, p)
                  eq == WalkEdges(root, q)
              IN  /\ Len(ep) = Len(p)
                  /\ Len(eq) = Len(q)
                  /\ \A m \in 1..k : ep[m] = eq[m]
                  /\ \A m \in (k + 1)..Len(ep) :
                        \A m2 \in (k + 1)..Len(eq) : ep[m] # eq[m2]
        /\ \A u \in T.node \ {NIL} :
              LET kids == successors(T, u) \ {NIL}
                  next == NextElems(Recover(u, Cardinality(T.node)))
              IN  /\ {T.source[v] : v \in kids} = next
                  /\ Cardinality(kids) = Cardinality(next)

\* Two paths with a common prefix of length 1 that part afterwards.
C3_Witness ==
    /\ pc = "done"
    /\ \E i, j \in DOMAIN paths :
          /\ Len(paths[i]) = 2 /\ Len(paths[j]) = 2
          /\ CommonPrefix(paths[i], paths[j]) = 1
          /\ WalkEdges(root, paths[i])[1] = WalkEdges(root, paths[j])[1]
          /\ WalkEdges(root, paths[i])[2] # WalkEdges(root, paths[j])[2]

\* C4 as stated: the nil node has one predecessor per path of P, a path that
\* occurs twice counted twice.
C4_PerOccurrence ==
    pc = "done" => Cardinality(predecessors(T, NIL)) = Len(paths)

\* C4, amended: the nil node has one predecessor per distinct path of P.
C4_PerDistinctPath ==
    pc = "done" => Cardinality(predecessors(T, NIL)) = Cardinality(PathsOf)

\* A list with a path that occurs twice.
C4_Witness ==
    /\ pc = "done"
    /\ Len(paths) = 3
    /\ Cardinality(PathsOf) = 2
    /\ Cardinality(predecessors(T, NIL)) = 2

\* C5: the root is the only node of in-degree zero and the nil node the only
\* node of out-degree zero, for every list of paths, the empty list included.
C5_UniqueSourceSink ==
    pc = "done" =>
        /\ {n \in T.node : in_degree(T, n) = 0} = {root}
        /\ {n \in T.node : out_degree(T, n) = 0} = {NIL}

\* ----------------------------------------------- specification SpecPrufer
\* The sequences of length L over 0..L+1, L up to MaxL.
PruferSeqs == UNION {[1..L -> 0..(L + 1)] : L \in 0..MaxL}

InitPrufer ==
    /\ pc = "start"
    /\ sequence \in PruferSeqs
    /\ tree = [node |-> {}, edge |-> {}]
    /\ paths = <<>>
    /\ T = DiGraph
    /\ root = None
    /\ uid = 0
    /\ InitRandomVars

FromPruferSequence ==
    /\ pc = "start"
    /\ tree' = from_prufer_sequence(sequence)
    /\ pc' = "done"
    /\ UNCHANGED <<sequence, trieVars, randomVars>>

NextPrufer == FromPruferSequence

SpecPrufer == InitPrufer /\ [][NextPrufer]_vars

\* --------------------------------------------------- properties of trees
\* The nodes reachable from the nodes of `seen` along the edges of G.
RECURSIVE Reach(_, _)
Reach(G, seen) ==
    LET more == {v \in G.node : \E u \in seen : {u, v} \in G.edge}
    IN  IF more \subseteq seen THEN seen ELSE Reach(G, seen \cup more)

Connected(G) == \A u \in G.node : Reach(G, {u}) = G.node

\* The edges left after removing, again and again, every edge at a node
\* that lies on only one edge; a cycle survives this, a forest does not.
RECURSIVE Core(_)
Core(edges) ==
    LET ends   == UNION edges
        hang   == {e \in edges :
                     \E u \in e : Cardinality({f \in edges : u \in f}) = 1}
    IN  IF hang = {} THEN edges ELSE Core(edges \ hang)

Acyclic(G) ==
    /\ \A e \in G.edge : Cardinality(e) = 2
    /\ Core(G.edge) = {}

\* G is a tree on the nodes 0..n-1.
IsTreeOn(G, n) ==
    /\ G.node = 0..(n - 1)
    /\ \A e \in G.edge : e \subseteq G.node
    /\ Cardinality(G.edge) = n - 1
    /\ Connected(G)
    /\ Acyclic(G)

\* C6: decoding a sequence of length L over 0..L+1 gives an undirected
\* graph with L+2 nodes and L+1 edges that is connected and acyclic.
C6_DecodeIsTree ==
    pc = "done" => IsTreeOn(tree, Len(sequence) + 2)

\* A sequence of length 3 in which a label occurs twice.
C6_Witness ==
    /\ pc = "done"
    /\ Len(sequence) = 3
    /\ sequence[1] = sequence[3]
    /\ sequence[1] # sequence[2]
    /\ IsTreeOn(tree, 5)

\* The edge set each sequence decodes to.
DecodedEdges == [S \in PruferSeqs |-> from_prufer_sequence(S).edge]

\* C7: two distinct sequences of the same length never decode to the same
\* edge set, so the N^(N-2) sequences of length N-2 give N^(N-2) trees.
C7_DecodeInjective ==
    pc = "done" =>
        \A S \in PruferSeqs :
            (Len(S) = Len(sequence) /\ S # sequence)
                => DecodedEdges[S] # tree.edge

\* N = 4: sixteen sequences, sixteen trees.
C7_Witness ==
    /\ pc = "done"
    /\ Len(sequence) = 2
    /\ Cardinality({from_prufer_sequence(S).edge :
                      S \in [1..2 -> 0..3]}) = 16
    /\ tree.edge = {{0, 1}, {0, 2}, {0, 3}}

\* ----------------------------------------------- specification SpecRandom
\* One call of random_tree, with or without a seed, whatever the shared
\* random source has been used for before.
InitRandom ==
    /\ pc = "start"
    /\ paths = <<>>
    /\ T = DiGraph
    /\ root = None
    /\ uid = 0
    /\ sequence = <<>>
    /\ tree = [node |-> {}, edge |-> {}]
    /\ rng \in [seed : Seeds \cup {None}, pos : 0..NumberOfDraws(MaxNodes)]
    /\ mt \in [Seeds -> UNION {[1..k -> 0..(Resolution - 1)] : k \in 0..1}]
    /\ call = NoCall
    /\ result = NoResult
    /\ returned = {}

CallRandomTree ==
    /\ pc = "start"
    /\ \E n \in 0..MaxNodes : \E sd \in Seeds \cup {None} : RandomTree(n, sd)
    /\ pc' = "done"

NextRandom == CallRandomTree

SpecRandom == InitRandom /\ [][NextRandom]_vars

\* ----------------------------------------------- specification SpecSeeded
\* Calls of random_tree with the seed that is followed, in any number and
\* with any sizes, among other uses of the shared random source.
InitSeeded ==
    /\ pc = "start"
    /\ paths = <<>>
    /\ T = DiGraph
    /\ root = None
    /\ uid = 0
    /\ sequence = <<>>
    /\ tree = [node |-> {}, edge |-> {}]
    /\ InitRandomVars

SeededRandomTree ==
    /\ \E n \in 0..MaxNodes : \E sd \in Seeds : RandomTree(n, sd)
    /\ UNCHANGED pc

NextSeeded ==
    \/ SeededRandomTree
    \/ OtherSeed
    \/ OtherDraw

SpecSeeded == InitSeeded /\ [][NextSeeded]_vars

\* C8: for n >= 1 random_tree returns a tree on the nodes 0..n-1, whatever
\* the seed and the draws: one node and no edge for n = 1, and for n >= 2
\* the decoding of a sequence of length n-2 over 0..n-1.
C8_RandomTreeIsTree ==
    call.n >= 1 =>
        /\ result.raised = None
        /\ Len(result.returned) = 1
        /\ IsTreeOn(result.returned[1], call.n)
        /\ call.n = 1 => result.returned[1] = [node |-> {0}, edge |-> {}]
        /\ call.n >= 2 =>
              /\ Len(sequence) = call.n - 2
              /\ \A i \in DOMAIN sequence : sequence[i] \in 0..(call.n - 1)

\* A call on the largest size whose draws differ.
C8_Witness ==
    /\ call.n = MaxNodes
    /\ Len(sequence) = MaxNodes - 2
    /\ sequence[1] # sequence[2]
    /\ IsTreeOn(result.returned[1], MaxNodes)

\* C9: random_tree(0, seed) raises NetworkXPointlessConcept and returns no
\* graph.
C9_ZeroNodesIsError ==
    call.n = 0 =>
        /\ result.raised = "NetworkXPointlessConcept"
        /\ result.returned = <<>>

\* A call on zero nodes with a seed, the source having been used before.
C9_Witness ==
    /\ call.n = 0
    /\ call.seed # None
    /\ rng.pos > 0
    /\ result.raised = "NetworkXPointlessConcept"
    /\ result.returned = <<>>

\* C10: two calls of random_tree with the same n >= 2 and the same seed
\* return the same edge set, whatever was called or drawn before or between
\* them.
C10_SeededReproducible ==
    \A a, b \in returned :
        (a.n = b.n /\ a.seed = b.seed) => a.edges = b.edges

\* Sizes 3 and MaxNodes each called twice with the same seed, the other
\* between the two, and the source seeded by another user since.
C10_Witness ==
    /\ \E a, b \in returned :
          /\ a.n = 3 /\ b.n = MaxNodes
          /\ a.seed = b.seed
          /\ a.again /\ b.again
    /\ rng.seed = None
    /\ rng.pos > 0

====
